---- MODULE Spec2Model ----
(***************************************************************************)
(* Model of the two allocation engines of freespace-sim: BuddyAllocator    *)
(* (src/src/buddy.rs) and FreeList (src/src/freelist.rs), both behind the  *)
(* Allocator trait (src/src/lib.rs).  One behaviour of the model follows   *)
(* one allocator instance from its construction through an arbitrary       *)
(* sequence of malloc(size >= 1) and free(ptr) calls.                      *)
(*                                                                         *)
(* Request sizes stay far below 2^24, where `(size as f32).log2().ceil()`  *)
(* is the exact integer ceiling of the base-2 logarithm.                   *)
(***************************************************************************)
EXTENDS Integers, Sequences, FiniteSets, Bags, TLC

\* ------------------------------------------------------------------------
\* Bounds of the model
\* ------------------------------------------------------------------------
\* largest max_size (an exponent) a BuddyAllocator is built with
MaxMaxSize == 2
\* largest min_size (an exponent) a BuddyAllocator is built with
MaxMinSize == 1
\* largest max_size (a byte count) a FreeList is built with
MaxHeap == 4
\* largest align a FreeList is configured with
MaxAlign == 3
\* largest base_addr a FreeList is built with
MaxBase == 1

VARIABLES
    engine,     \* which Allocator implementation this run drives
    buddy,      \* the BuddyAllocator struct
    list,       \* the FreeList struct
    base_addr,  \* the base_addr argument FreeList::new was called with
    call,       \* the last call made: [op, arg]
    ret,        \* what the last call returned
    live        \* bag of [addr, size]: allocations returned and not yet freed

vars == <<engine, buddy, list, base_addr, call, ret, live>>

\* ------------------------------------------------------------------------
\* Return values: Option<usize> of malloc, Result<(), &str> of free
\* ------------------------------------------------------------------------
Some(a) == [tag |-> "Some", val |-> a]
None == [tag |-> "None", val |-> 0]
Ok == [tag |-> "Ok", val |-> 0]
Err == [tag |-> "Err", val |-> 0]
Constructed == [tag |-> "New", val |-> 0]

\* ------------------------------------------------------------------------
\* HashMap<usize, (usize, usize)> as a function on its key set
\* ------------------------------------------------------------------------
EmptyMap == [k \in {} |-> <<0, 0>>]
\* variant: the map is rebuilt holding the new entry only
MapInsert_drops_others(m, k, v) == [a \in {k} |-> v]

MapInsert(m, k, v) == [a \in DOMAIN m \cup {k} |-> IF a = k THEN v ELSE m[a]]
\* variant: looks the key up and leaves it in the map (get for remove)
MapRemove_keeps_key(m, k) == m

MapRemove(m, k) == [a \in DOMAIN m \ {k} |-> m[a]]

\* Vec::remove(i), i counted from 0
VecRemove(s, i) == SubSeq(s, 1, i) \o SubSeq(s, i + 2, Len(s))

RECURSIVE SumSeq(_)
SumSeq(s) == IF s = <<>> THEN 0 ELSE Head(s) + SumSeq(Tail(s))

RECURSIVE SumOver(_, _)
SumOver(f, S) ==
    IF S = {} THEN 0
    ELSE LET k == CHOOSE x \in S : TRUE IN f[k] + SumOver(f, S \ {k})

\* ========================================================================
\* BuddyAllocator
\* ========================================================================
\* 1 << k
Pow2(k) == 2 ^ k

\* (size as f32).log2().ceil() as usize, for 1 <= size < 2^24
RECURSIVE log2_ceil_from(_, _)
log2_ceil_from(size, j) ==
    IF Pow2(j) >= size THEN j ELSE log2_ceil_from(size, j + 1)

log2_ceil(size) == log2_ceil_from(size, 0)

\* addr ^ (1 << k): flip bit k of addr
XorBit(addr, k) ==
    IF (addr \div Pow2(k)) % 2 = 0 THEN addr + Pow2(k) ELSE addr - Pow2(k)

Block_new(addr, size_class) == [addr |-> addr, size_class |-> size_class]

\* variant: the buddy is given the next size class
Block_buddy_next_class(block) ==
    [addr |-> XorBit(block.addr, block.size_class),
     size_class |-> block.size_class + 1]

Block_buddy(block) ==
    [addr |-> XorBit(block.addr, block.size_class),
     size_class |-> block.size_class]

Level_new(size_class) == [blocks |-> <<>>, size_class |-> size_class]

has_available_block(level) == level.blocks # <<>>

Level_add(level, block) == [level EXCEPT !.blocks = Append(@, block)]

\* variant: reads the front block and leaves it in the level
pop_front_keeps_block(level) ==
    [block |-> Head(level.blocks), level |-> level]

\* Level::pop_front: the block removed and the level left behind
pop_front(level) ==
    [block |-> Head(level.blocks),
     level |-> [level EXCEPT !.blocks = Tail(@)]]

\* levels is a Vec indexed from 0; the model's sequence is indexed from 1
BuddyAllocator_new(min, max) ==
    [min_size |-> min,
     max_size |-> max,
     levels |-> [i \in 1..(max - min + 1) |->
                    IF i = max - min + 1
                    THEN Level_add(Level_new(max), Block_new(0, max))
                    ELSE Level_new(min + i - 1)],
     sizemap |-> EmptyMap]

size_class_to_index(self, size_class) == size_class - self.min_size

\* variant: the scan stops below the top level (`<` for `<=`)
RECURSIVE check_size_scan_skips_top(_, _)
check_size_scan_skips_top(self, curr_size_class) ==
    IF curr_size_class < self.max_size
    THEN IF has_available_block(
                self.levels[size_class_to_index(self, curr_size_class) + 1])
         THEN curr_size_class
         ELSE check_size_scan_skips_top(self, curr_size_class + 1)
    ELSE self.max_size + 1

\* the `while curr_size_class <= self.max_size` scan of check_size
RECURSIVE check_size_scan(_, _)
check_size_scan(self, curr_size_class) ==
    IF curr_size_class <= self.max_size
    THEN IF has_available_block(
                self.levels[size_class_to_index(self, curr_size_class) + 1])
         THEN curr_size_class
         ELSE check_size_scan(self, curr_size_class + 1)
    ELSE curr_size_class

Buddy_check_size(self, size) ==
    LET j0 == log2_ceil(size) IN
    IF j0 > self.max_size THEN FALSE
    ELSE LET j == IF j0 < self.min_size THEN self.min_size ELSE j0
             idx == size_class_to_index(self, j)
         IN IF has_available_block(self.levels[idx + 1]) THEN TRUE
            ELSE check_size_scan(self, j + 1) # self.max_size + 1

\* the `while curr_size_class <= self.max_size` scan of malloc
RECURSIVE malloc_scan(_, _)
malloc_scan(self, curr_size_class) ==
    IF curr_size_class <= self.max_size
    THEN IF has_available_block(
                self.levels[size_class_to_index(self, curr_size_class) + 1])
         THEN curr_size_class
         ELSE malloc_scan(self, curr_size_class + 1)
    ELSE curr_size_class

\* variant: the split loop stops one class above j (`>` for `>=`)
RECURSIVE malloc_split_stops_early(_, _, _, _, _)
malloc_split_stops_early(self, levels, block, curr_size_class, j) ==
    IF curr_size_class > j
    THEN LET idx == size_class_to_index(self, curr_size_class)
             block1 == Block_new(block.addr, curr_size_class)
             bud == Block_buddy(block1)
             levels1 == [levels EXCEPT ![idx + 1] = Level_add(@, bud)]
         IN malloc_split_stops_early(self, levels1, block1,
                                     curr_size_class - 1, j)
    ELSE [levels |-> levels, block |-> block]

\* the `while curr_size_class >= j` split loop of malloc
RECURSIVE malloc_split(_, _, _, _, _)
malloc_split(self, levels, block, curr_size_class, j) ==
    IF curr_size_class >= j
    THEN LET idx == size_class_to_index(self, curr_size_class)
             block1 == Block_new(block.addr, curr_size_class)
             bud == Block_buddy(block1)
             levels1 == [levels EXCEPT ![idx + 1] = Level_add(@, bud)]
         IN IF curr_size_class = 0
            THEN [levels |-> levels1, block |-> block1]
            ELSE malloc_split(self, levels1, block1, curr_size_class - 1, j)
    ELSE [levels |-> levels, block |-> block]

\* BuddyAllocator::malloc: the allocator after the call and the value returned
Buddy_malloc(self, size) ==
    LET j0 == log2_ceil(size) IN
    IF j0 > self.max_size THEN [self |-> self, ret |-> None]
    ELSE
      LET j == IF j0 < self.min_size THEN self.min_size ELSE j0
          diff == Pow2(j) - size
          idx == size_class_to_index(self, j)
      IN
      IF has_available_block(self.levels[idx + 1])
      THEN LET p == pop_front(self.levels[idx + 1]) IN
           [self |-> [self EXCEPT
                        !.levels[idx + 1] = p.level,
                        !.sizemap = MapInsert(@, p.block.addr, <<j, diff>>)],
            ret |-> Some(p.block.addr)]
      ELSE
        LET curr_size_class == malloc_scan(self, j + 1) IN
        IF curr_size_class = self.max_size + 1
        THEN [self |-> self, ret |-> None]
        ELSE
          LET idx2 == size_class_to_index(self, curr_size_class)
              p == pop_front(self.levels[idx2 + 1])
              popped == [self.levels EXCEPT ![idx2 + 1] = p.level]
              s == malloc_split(self, popped, p.block, curr_size_class - 1, j)
          IN [self |-> [self EXCEPT
                          !.levels = s.levels,
                          !.sizemap = MapInsert(@, s.block.addr, <<j, diff>>)],
              ret |-> Some(s.block.addr)]

\* variant: the first block is taken whatever its address
position_matches_any(blocks, addr) ==
    IF blocks = <<>> THEN -1 ELSE 0

\* blocks.iter().position(|b| b.addr == addr): index from 0, or -1 for None
position(blocks, addr) ==
    LET hits == {i \in 1..Len(blocks) : blocks[i].addr = addr} IN
    IF hits = {} THEN -1
    ELSE (CHOOSE i \in hits : \A k \in hits : i <= k) - 1

\* the `while size_class <= self.max_size` merge loop of free
RECURSIVE free_loop(_, _, _, _)
free_loop(self, levels, ptr, size_class) ==
    IF size_class <= self.max_size
    THEN LET i == size_class_to_index(self, size_class)
             block == Block_new(ptr, size_class)
             bud == position(levels[i + 1].blocks, Block_buddy(block).addr)
         IN IF bud # -1
            THEN free_loop(self,
                           [levels EXCEPT ![i + 1].blocks = VecRemove(@, bud)],
                           ptr, size_class + 1)
            ELSE [levels EXCEPT ![i + 1] = Level_add(@, block)]
    ELSE levels

\* variant: a pointer missing from sizemap is put on the lowest level before
\* the error is returned
Buddy_free_inserts_unknown(self, ptr) ==
    IF ptr \notin DOMAIN self.sizemap
    THEN [self |-> [self EXCEPT
                      !.levels[1] = Level_add(@, Block_new(ptr, self.min_size))],
          ret |-> Err]
    ELSE LET size_class == self.sizemap[ptr][1]
             removed == [self EXCEPT !.sizemap = MapRemove(@, ptr)]
         IN [self |-> [removed EXCEPT
                         !.levels = free_loop(removed, @, ptr, size_class)],
             ret |-> Ok]

\* BuddyAllocator::free
Buddy_free(self, ptr) ==
    IF ptr \notin DOMAIN self.sizemap THEN [self |-> self, ret |-> Err]
    ELSE LET size_class == self.sizemap[ptr][1]
             removed == [self EXCEPT !.sizemap = MapRemove(@, ptr)]
         IN [self |-> [removed EXCEPT
                         !.levels = free_loop(removed, @, ptr, size_class)],
             ret |-> Ok]

\* value standing for the panic of Option::unwrap on None
Panic == -1

\* variant: the probe's first failing size is returned without the `- 1`
Buddy_largest_alloc_no_decrement(self) ==
    LET failing == {x \in 1..(Pow2(self.max_size) + 1) :
                        ~Buddy_check_size(self, x)}
    IN IF failing = {} THEN Panic
       ELSE CHOOSE x \in failing : \A y \in failing : x <= y

Buddy_largest_alloc(self) ==
    LET failing == {x \in 1..(Pow2(self.max_size) + 1) :
                        ~Buddy_check_size(self, x)}
    IN IF failing = {} THEN Panic
       ELSE (CHOOSE x \in failing : \A y \in failing : x <= y) - 1

Buddy_free_space(self) ==
    SumSeq([i \in 1..Len(self.levels) |->
              Pow2(self.levels[i].size_class) * Len(self.levels[i].blocks)])

Buddy_internal_frag(self) ==
    SumOver([a \in DOMAIN self.sizemap |-> self.sizemap[a][2]],
            DOMAIN self.sizemap)

\* ========================================================================
\* FreeList
\* ========================================================================
FreeNode_new(addr, size) == [addr |-> addr, size |-> size]

\* FreeList::new; `max_size == 0` panics, so it is never a constructed state
FreeList_new(base, max, coalesce) ==
    [max_size |-> max,
     align |-> 0,
     policy |-> "Best",
     coalesce |-> coalesce,
     freelist |-> <<FreeNode_new(base, max)>>,
     sizemap |-> EmptyMap]

FreeList_align(self, align) == [self EXCEPT !.align = align]

FreeList_policy(self, policy) == [self EXCEPT !.policy = policy]

\* the `for node in self.freelist[1..]` loop of coalesce
RECURSIVE coalesce_loop(_, _, _)
coalesce_loop(rest, curr, newlist) ==
    IF rest = <<>> THEN Append(newlist, curr)
    ELSE LET node == Head(rest) IN
         IF node.addr = curr.addr + curr.size
         THEN coalesce_loop(Tail(rest),
                            FreeNode_new(curr.addr, curr.size + node.size),
                            newlist)
         ELSE coalesce_loop(Tail(rest), node, Append(newlist, curr))

\* variant: the last run of the pass is never pushed onto newlist
FreeList_coalesce_drops_last(self) ==
    [self EXCEPT !.freelist =
        LET merged == coalesce_loop(Tail(@), Head(@), <<>>)
        IN SubSeq(merged, 1, Len(merged) - 1)]

\* variant: newlist is built and then not stored back into freelist
FreeList_coalesce_discards_newlist(self) == self

FreeList_coalesce(self) ==
    [self EXCEPT !.freelist = coalesce_loop(Tail(@), Head(@), <<>>)]

\* variant: a node replaces the best so far only when strictly smaller
RECURSIVE best_loop_strict(_, _, _, _, _)
best_loop_strict(freelist, size, i, bestsize, idx) ==
    IF i >= Len(freelist) THEN idx
    ELSE LET node == freelist[i + 1] IN
         IF (size <= node.size) /\ (idx = -1 \/ node.size < bestsize)
         THEN best_loop_strict(freelist, size, i + 1, node.size, i)
         ELSE best_loop_strict(freelist, size, i + 1, bestsize, idx)

\* the loop of best from node i (counted from 0) on; idx is -1 for None
RECURSIVE best_loop(_, _, _, _, _)
best_loop(freelist, size, i, bestsize, idx) ==
    IF i >= Len(freelist) THEN idx
    ELSE LET node == freelist[i + 1] IN
         IF (size <= node.size) /\ (node.size <= bestsize)
         THEN best_loop(freelist, size, i + 1, node.size, i)
         ELSE best_loop(freelist, size, i + 1, bestsize, idx)

FreeList_best(self, size) ==
    best_loop(self.freelist, size, 0, self.max_size, -1)

\* variant: a node of exactly the requested size does not fit (`<` for `<=`)
FreeList_first_strict(self, size) ==
    LET fits == {i \in 1..Len(self.freelist) : size < self.freelist[i].size}
    IN IF fits = {} THEN -1
       ELSE (CHOOSE i \in fits : \A k \in fits : i <= k) - 1

\* variant: the scan keeps going and ends on the last node that fits
FreeList_first_takes_last(self, size) ==
    LET fits == {i \in 1..Len(self.freelist) : size <= self.freelist[i].size}
    IN IF fits = {} THEN -1
       ELSE (CHOOSE i \in fits : \A k \in fits : i >= k) - 1

\* index from 0 of the first node that fits, -1 for None
FreeList_first(self, size) ==
    LET fits == {i \in 1..Len(self.freelist) : size <= self.freelist[i].size}
    IN IF fits = {} THEN -1
       ELSE (CHOOSE i \in fits : \A k \in fits : i <= k) - 1

\* variant: the padding recorded is the remainder, not what was added
align_up_records_remainder(self, size) ==
    LET left == IF self.align > 1 THEN size % self.align ELSE 0 IN
    IF self.align > 1 /\ left # 0
    THEN [size |-> size + (self.align - left), diff |-> left]
    ELSE [size |-> size, diff |-> 0]

\* the rounding of size to a multiple of align: the new size and the padding
align_up(self, size) ==
    LET left == IF self.align > 1 THEN size % self.align ELSE 0 IN
    IF self.align > 1 /\ left # 0
    THEN [size |-> size + (self.align - left), diff |-> self.align - left]
    ELSE [size |-> size, diff |-> 0]

select(self, size) ==
    IF self.policy = "Best" THEN FreeList_best(self, size)
    ELSE FreeList_first(self, size)

\* variant: the requested size is not rounded up to the alignment
FreeList_check_size_unaligned(self, size) ==
    select(self, size) # -1

FreeList_check_size(self, size) ==
    select(self, align_up(self, size).size) # -1

\* variant: the remainder of a split interval keeps the address of the
\* interval (`node.addr` for `node.addr + size`)
FreeList_malloc_keeps_node_addr(self, size0) ==
    LET r == align_up(self, size0)
        size == r.size
        diff == r.diff
        i == select(self, size)
    IN IF i # -1
       THEN LET node == self.freelist[i + 1]
                mapped == MapInsert(self.sizemap, node.addr, <<size, diff>>)
            IN IF size = node.size
               THEN [self |-> [self EXCEPT
                                 !.sizemap = mapped,
                                 !.freelist = VecRemove(@, i)],
                     ret |-> Some(node.addr)]
               ELSE IF size < node.size
               THEN [self |-> [self EXCEPT
                                 !.sizemap = mapped,
                                 !.freelist[i + 1] =
                                     FreeNode_new(node.addr, node.size - size)],
                     ret |-> Some(node.addr)]
               ELSE [self |-> [self EXCEPT !.sizemap = mapped],
                     ret |-> [tag |-> "Panic", val |-> 0]]
       ELSE [self |-> self, ret |-> None]

\* FreeList::malloc: the allocator after the call and the value returned
FreeList_malloc(self, size0) ==
    LET r == align_up(self, size0)
        size == r.size
        diff == r.diff
        i == select(self, size)
    IN IF i # -1
       THEN LET node == self.freelist[i + 1]
                mapped == MapInsert(self.sizemap, node.addr, <<size, diff>>)
            IN IF size = node.size
               THEN [self |-> [self EXCEPT
                                 !.sizemap = mapped,
                                 !.freelist = VecRemove(@, i)],
                     ret |-> Some(node.addr)]
               ELSE IF size < node.size
               THEN [self |-> [self EXCEPT
                                 !.sizemap = mapped,
                                 !.freelist[i + 1] =
                                     FreeNode_new(node.addr + size,
                                                  node.size - size)],
                     ret |-> Some(node.addr)]
               ELSE [self |-> [self EXCEPT !.sizemap = mapped],
                     ret |-> [tag |-> "Panic", val |-> 0]]
       ELSE [self |-> self, ret |-> None]

\* variant: the nodes are left in the order they were in
sort_unstable_by_key_unsorted(s) == {s}

\* sort_unstable_by_key(|node| node.addr): every order of the nodes that is
\* ascending in addr (nodes of equal addr may come out in any order)
RECURSIVE sort_unstable_by_key(_)
sort_unstable_by_key(s) ==
    IF s = <<>> THEN {<<>>}
    ELSE LET least == {i \in 1..Len(s) :
                          \A k \in 1..Len(s) : s[i].addr <= s[k].addr}
         IN UNION {{<<s[i]>> \o t :
                       t \in sort_unstable_by_key(VecRemove(s, i - 1))} :
                   i \in least}

\* variant: the coalesce flag is not consulted, every free coalesces
FreeList_free_always_coalesces(self, ptr) ==
    IF ptr \notin DOMAIN self.sizemap THEN {[self |-> self, ret |-> Err]}
    ELSE LET size == self.sizemap[ptr][1]
             removed == [self EXCEPT !.sizemap = MapRemove(@, ptr)]
             pushed == Append(removed.freelist, FreeNode_new(ptr, size))
         IN {[self |-> FreeList_coalesce([removed EXCEPT !.freelist = sorted]),
              ret |-> Ok] : sorted \in sort_unstable_by_key(pushed)}

\* variant: the pushed node stays at the end, the list is not sorted again
FreeList_free_without_sort(self, ptr) ==
    IF ptr \notin DOMAIN self.sizemap THEN {[self |-> self, ret |-> Err]}
    ELSE LET size == self.sizemap[ptr][1]
             removed == [self EXCEPT !.sizemap = MapRemove(@, ptr)]
             pushed == Append(removed.freelist, FreeNode_new(ptr, size))
         IN {[self |-> IF removed.coalesce
                       THEN FreeList_coalesce([removed EXCEPT !.freelist = pushed])
                       ELSE [removed EXCEPT !.freelist = pushed],
              ret |-> Ok]}

\* FreeList::free: the set of outcomes (one per order the sort may produce)
FreeList_free(self, ptr) ==
    IF ptr \notin DOMAIN self.sizemap THEN {[self |-> self, ret |-> Err]}
    ELSE LET size == self.sizemap[ptr][1]
             removed == [self EXCEPT !.sizemap = MapRemove(@, ptr)]
             pushed == Append(removed.freelist, FreeNode_new(ptr, size))
         IN {[self |-> IF removed.coalesce
                       THEN FreeList_coalesce([removed EXCEPT !.freelist = sorted])
                       ELSE [removed EXCEPT !.freelist = sorted],
              ret |-> Ok] : sorted \in sort_unstable_by_key(pushed)}

FreeList_largest_alloc(self) ==
    LET failing == {x \in 1..(self.max_size + 1) :
                        ~FreeList_check_size(self, x)}
    IN IF failing = {} THEN Panic
       ELSE (CHOOSE x \in failing : \A y \in failing : x <= y) - 1

FreeList_free_space(self) ==
    SumSeq([i \in 1..Len(self.freelist) |-> self.freelist[i].size])

FreeList_internal_frag(self) ==
    SumOver([a \in DOMAIN self.sizemap |-> self.sizemap[a][2]],
            DOMAIN self.sizemap)

\* ========================================================================
\* The Allocator trait, dispatched on the implementation in use
\* ========================================================================
largest_alloc ==
    IF engine = "buddy" THEN Buddy_largest_alloc(buddy)
    ELSE FreeList_largest_alloc(list)

free_space ==
    IF engine = "buddy" THEN Buddy_free_space(buddy)
    ELSE FreeList_free_space(list)

internal_frag ==
    IF engine = "buddy" THEN Buddy_internal_frag(buddy)
    ELSE FreeList_internal_frag(list)

\* Allocator::external_frag: 1.0 - (largest_alloc as f32 / free_space as f32).
\* The f32 result is kept as the exact fraction num/den when the denominator
\* is not zero; 0/0 is NaN and x/0 with x > 0 is +inf, so 1.0 - it is -inf.
external_frag ==
    LET l == largest_alloc
        f == free_space
    IN IF f # 0 THEN [kind |-> "ratio", num |-> f - l, den |-> f]
       ELSE IF l = 0 THEN [kind |-> "NaN", num |-> 0, den |-> 0]
       ELSE [kind |-> "-inf", num |-> 0, den |-> 0]

\* total capacity of the simulated space
Capacity ==
    IF engine = "buddy" THEN Pow2(buddy.max_size) ELSE list.max_size

\* ========================================================================
\* State machine
\* ========================================================================
\* value of the struct of the implementation that is not in use
NoBuddy == [min_size |-> 0, max_size |-> 0, levels |-> <<>>, sizemap |-> EmptyMap]
NoList ==
    [max_size |-> 0, align |-> 0, policy |-> "Best", coalesce |-> FALSE,
     freelist |-> <<>>, sizemap |-> EmptyMap]

InitBuddy ==
    /\ engine = "buddy"
    /\ \E min \in 0..MaxMinSize : \E max \in min..MaxMaxSize :
          buddy = BuddyAllocator_new(min, max)
    /\ list = NoList
    /\ base_addr = 0

InitFreeList ==
    /\ engine = "freelist"
    /\ buddy = NoBuddy
    /\ base_addr \in {0, MaxBase}
    /\ \E max \in 1..MaxHeap, coalesce \in BOOLEAN,
          align \in 0..MaxAlign, policy \in {"Best", "First"} :
          list = FreeList_policy(
                    FreeList_align(FreeList_new(base_addr, max, coalesce), align),
                    policy)

Init ==
    /\ InitBuddy \/ InitFreeList
    /\ call = [op |-> "new", arg |-> 0]
    /\ ret = Constructed
    /\ live = EmptyBag

\* the allocation records left after a successful free(ptr)
LiveAfterFree(ptr) ==
    LET hit == {e \in BagToSet(live) : e.addr = ptr} IN
    IF hit = {} THEN {live} ELSE {live (-) SetToBag({e}) : e \in hit}

LiveAfterMalloc(r, size) ==
    IF r.tag = "Some"
    THEN live (+) SetToBag({[addr |-> r.val, size |-> size]})
    ELSE live

BuddyMalloc(size) ==
    /\ engine = "buddy"
    /\ LET out == Buddy_malloc(buddy, size) IN
          /\ buddy' = out.self
          /\ ret' = out.ret
          /\ live' = LiveAfterMalloc(out.ret, size)
    /\ call' = [op |-> "malloc", arg |-> size]
    /\ UNCHANGED <<engine, list, base_addr>>

BuddyFree(ptr) ==
    /\ engine = "buddy"
    /\ LET out == Buddy_free(buddy, ptr) IN
          /\ buddy' = out.self
          /\ ret' = out.ret
          /\ IF out.ret = Ok THEN live' \in LiveAfterFree(ptr) ELSE live' = live
    /\ call' = [op |-> "free", arg |-> ptr]
    /\ UNCHANGED <<engine, list, base_addr>>

FreeListMalloc(size) ==
    /\ engine = "freelist"
    /\ LET out == FreeList_malloc(list, size) IN
          /\ list' = out.self
          /\ ret' = out.ret
          /\ live' = LiveAfterMalloc(out.ret, size)
    /\ call' = [op |-> "malloc", arg |-> size]
    /\ UNCHANGED <<engine, buddy, base_addr>>

FreeListFree(ptr) ==
    /\ engine = "freelist"
    /\ \E out \in FreeList_free(list, ptr) :
          /\ list' = out.self
          /\ ret' = out.ret
          /\ IF out.ret = Ok THEN live' \in LiveAfterFree(ptr) ELSE live' = live
    /\ call' = [op |-> "free", arg |-> ptr]
    /\ UNCHANGED <<engine, buddy, base_addr>>

Next ==
    \/ \E size \in 1..(Capacity + 1) : BuddyMalloc(size)
    \/ \E ptr \in 0..Capacity : BuddyFree(ptr)
    \/ \E size \in 1..(Capacity + 1) : FreeListMalloc(size)
    \/ \E ptr \in base_addr..(base_addr + Capacity) : FreeListFree(ptr)

Spec == Init /\ [][Next]_vars

\* ========================================================================
\* Vocabulary of the properties
\* ========================================================================
\* least j with 2^j >= size
CeilLog2(size) ==
    CHOOSE j \in 0..size : Pow2(j) >= size /\ \A i \in 0..(j - 1) : Pow2(i) < size

\* size class a BuddyAllocator grants for a request of size
GrantedClass(size) ==
    IF CeilLog2(size) < buddy.min_size THEN buddy.min_size ELSE CeilLog2(size)

\* size rounded up to the next multiple of align (align > 1; otherwise size)
RoundedUp(size) ==
    IF list.align > 1
    THEN ((size + list.align - 1) \div list.align) * list.align
    ELSE size

\* granted size of a request of size, by the engine in use
Granted(size) ==
    IF engine = "buddy" THEN Pow2(GrantedClass(size)) ELSE RoundedUp(size)

sizemap == IF engine = "buddy" THEN buddy.sizemap ELSE list.sizemap

\* granted size recorded in sizemap for the live address a
Recorded(a) ==
    IF engine = "buddy" THEN Pow2(buddy.sizemap[a][1]) ELSE list.sizemap[a][1]

LiveAddrs == {e.addr : e \in BagToSet(live)}

\* sum of the granted sizes recorded in sizemap
RecordedTotal ==
    SumOver([a \in DOMAIN sizemap |-> Recorded(a)], DOMAIN sizemap)

\* sum of the granted sizes of the live allocations
GrantedTotal ==
    SumOver([e \in BagToSet(live) |-> live[e] * Granted(e.size)], BagToSet(live))

\* sum of (granted size - requested size) over the live allocations
PaddingTotal ==
    SumOver([e \in BagToSet(live) |-> live[e] * (Granted(e.size) - e.size)],
            BagToSet(live))

\* the intervals [lo, hi) of the free structure and of the live allocations
FreeIntervals ==
    IF engine = "buddy"
    THEN UNION {{[kind |-> "free", at |-> <<i, n>>,
                  lo |-> buddy.levels[i].blocks[n].addr,
                  hi |-> buddy.levels[i].blocks[n].addr
                            + Pow2(buddy.levels[i].size_class)] :
                    n \in 1..Len(buddy.levels[i].blocks)} :
                i \in 1..Len(buddy.levels)}
    ELSE {[kind |-> "free", at |-> <<0, n>>,
           lo |-> list.freelist[n].addr,
           hi |-> list.freelist[n].addr + list.freelist[n].size] :
             n \in 1..Len(list.freelist)}

GrantedIntervals ==
    {[kind |-> "live", at |-> <<0, a>>, lo |-> a, hi |-> a + Recorded(a)] :
        a \in DOMAIN sizemap}

Intervals == FreeIntervals \cup GrantedIntervals

Disjoint(x, y) == x.hi <= y.lo \/ y.hi <= x.lo

FreeStructureUnchanged == buddy' = buddy /\ list' = list

\* ========================================================================
\* Properties
\* ========================================================================
\* C1: BuddyAllocator conservation: in every reachable state the free blocks'
\* sizes (free_space(): blocks at level k times 2^k) plus the granted sizes
\* 2^class of all sizemap entries equal 2^max_size, and so do free_space()
\* plus the granted sizes of the live allocations.
C1_BuddyConservation ==
    engine = "buddy" =>
        /\ Buddy_free_space(buddy) + RecordedTotal = Pow2(buddy.max_size)
        /\ Buddy_free_space(buddy) + GrantedTotal = Pow2(buddy.max_size)

\* a successful free has merged blocks while other allocations stay live
C1_Witness ==
    /\ engine = "buddy"
    /\ call.op = "free" /\ ret = Ok
    /\ DOMAIN buddy.sizemap # {}
    /\ \E i \in 1..Len(buddy.levels) :
          /\ buddy.levels[i].size_class > buddy.min_size
          /\ \E n \in 1..Len(buddy.levels[i].blocks) :
                buddy.levels[i].blocks[n].addr \in
                    {call.arg, XorBit(call.arg, buddy.levels[i].size_class - 1)}

\* C2: FreeList tiling: in every reachable state the free intervals
\* [addr, addr+size) and the granted intervals [addr, addr+granted) of sizemap
\* are non-empty, pairwise disjoint and cover every address of
\* [base_addr, base_addr+max_size) and nothing else; hence free_space() plus
\* the granted sizes equals max_size.
C2_FreeListTiling ==
    engine = "freelist" =>
        /\ \A x \in Intervals :
              x.lo < x.hi /\ base_addr <= x.lo /\ x.hi <= base_addr + list.max_size
        /\ \A x, y \in Intervals : x # y => Disjoint(x, y)
        /\ \A u \in base_addr..(base_addr + list.max_size - 1) :
              \E x \in Intervals : x.lo <= u /\ u < x.hi
        /\ FreeList_free_space(list) + RecordedTotal = list.max_size
        /\ FreeList_free_space(list) + GrantedTotal = list.max_size

\* a free has left several free intervals next to live allocations
C2_Witness ==
    /\ engine = "freelist"
    /\ call.op = "free" /\ ret = Ok
    /\ Len(list.freelist) >= 2
    /\ DOMAIN list.sizemap # {}

\* C3: for both engines free(addr) returns Ok exactly when addr was returned
\* by a malloc and not successfully freed since, which is exactly when addr is
\* a key of sizemap, and returns the error otherwise; freeing the same address
\* twice in a row yields Ok then Err.
C3_Step ==
    call'.op = "free" =>
        /\ ret' \in {Ok, Err}
        /\ ret' = Ok <=> call'.arg \in LiveAddrs
        /\ ret' = Ok <=> call'.arg \in DOMAIN sizemap
        /\ (call.op = "free" /\ ret = Ok /\ call'.arg = call.arg) => ret' = Err

C3_FreeOkIffLive == [][C3_Step]_vars

\* a free of an address strictly inside a granted block was rejected
C3_Witness ==
    /\ call.op = "free" /\ ret = Err
    /\ \E a \in DOMAIN sizemap : a < call.arg /\ call.arg < a + Recorded(a)

\* C4: failure atomicity, both engines: a malloc that returns None and a free
\* that returns Err leave the free structure (levels with the order of their
\* blocks, the freelist sequence) and sizemap exactly as they were.
C4_FailureAtomic == [][ret' \in {None, Err} => FreeStructureUnchanged]_vars

\* a malloc failed for want of a fitting region although that much space is free
C4_Witness ==
    /\ call.op = "malloc" /\ ret = None
    /\ call.arg <= free_space
    /\ DOMAIN sizemap # {}

\* C5: buddy alignment: in every reachable state every free block stored at
\* level k has an address divisible by 2^k.
C5_BuddyAlignment ==
    engine = "buddy" =>
        \A i \in 1..Len(buddy.levels) :
            \A n \in 1..Len(buddy.levels[i].blocks) :
                buddy.levels[i].blocks[n].addr % Pow2(buddy.levels[i].size_class) = 0

\* C6: buddy non-overlap: in every reachable state the free blocks, read as
\* [addr, addr+2^k), and the live allocations, read as [addr, addr+2^class),
\* are pairwise disjoint and lie inside [0, 2^max_size).
C6_BuddyNonOverlap ==
    engine = "buddy" =>
        /\ \A x \in Intervals : 0 <= x.lo /\ x.hi <= Pow2(buddy.max_size)
        /\ \A x, y \in Intervals : x # y => Disjoint(x, y)

\* C7: with coalesce enabled, after any free call has returned no two free
\* intervals a, b satisfy a.addr + a.size = b.addr.
C7_NoAdjacentAfterFree ==
    (engine = "freelist" /\ list.coalesce /\ call.op = "free") =>
        \A i, k \in 1..Len(list.freelist) :
            list.freelist[i].addr + list.freelist[i].size # list.freelist[k].addr

\* a free merged the freed block into the free interval on its left while
\* another free interval and a live allocation remain
C7_Witness ==
    /\ engine = "freelist" /\ list.coalesce
    /\ call.op = "free" /\ ret = Ok
    /\ Len(list.freelist) >= 2
    /\ DOMAIN list.sizemap # {}
    /\ \E i \in 1..Len(list.freelist) :
          /\ list.freelist[i].addr < call.arg
          /\ call.arg < list.freelist[i].addr + list.freelist[i].size

\* the value malloc(x) would return in the current state
MallocRet(x) ==
    IF engine = "buddy" THEN Buddy_malloc(buddy, x).ret
    ELSE FreeList_malloc(list, x).ret

\* C8: largest_alloc is the success threshold of malloc in every reachable
\* state of both engines: malloc(x) succeeds for every 1 <= x <= largest_alloc()
\* and returns None for every x above it.
C8_LargestAllocThreshold ==
    LET L == largest_alloc IN
    /\ L \in 0..Capacity
    /\ \A x \in 1..(Capacity + 1) :
          /\ x <= L => MallocRet(x).tag = "Some"
          /\ x > L => MallocRet(x) = None

\* a malloc above the threshold failed in a fragmented state: more is free
\* than the largest request that can succeed
C8_Witness ==
    /\ call.op = "malloc" /\ ret = None
    /\ Cardinality(FreeIntervals) >= 2
    /\ largest_alloc >= 1
    /\ largest_alloc < free_space
    /\ call.arg > largest_alloc

\* no free region can satisfy a request of size
NoFit(size) ==
    IF engine = "buddy"
    THEN \/ GrantedClass(size) > buddy.max_size
         \/ \A k \in GrantedClass(size)..buddy.max_size :
               buddy.levels[k - buddy.min_size + 1].blocks = <<>>
    ELSE \A n \in 1..Len(list.freelist) :
            list.freelist[n].size < RoundedUp(size)

\* C9: malloc(size >= 1) returns None exactly when no free region can satisfy
\* the request (buddy: the class max(min_size, ceil(log2 size)) exceeds
\* max_size or every level from it up to max_size is empty; free list: no
\* interval is as large as the rounded size); otherwise it returns Some address.
C9_Step ==
    call'.op = "malloc" =>
        /\ ret' = None <=> NoFit(call'.arg)
        /\ ~NoFit(call'.arg) => ret'.tag = "Some"

C9_NoneIffNoFit == [][C9_Step]_vars

\* a malloc failed only because the free space is split up: the request is
\* within the capacity and within the total free space
C9_Witness ==
    /\ call.op = "malloc" /\ ret = None
    /\ Granted(call.arg) <= Capacity
    /\ Granted(call.arg) <= free_space
    /\ DOMAIN sizemap # {}

\* C10: in every reachable state internal_frag() is the sum over the live
\* allocations of granted size minus requested size, and a successful free
\* takes exactly the freed allocation's padding out of that sum.
C10_FreeStep ==
    (call'.op = "free" /\ ret' = Ok) =>
        \E e \in BagToSet(live) :
            /\ e.addr = call'.arg
            /\ internal_frag' = internal_frag - (Granted(e.size) - e.size)

C10_InternalFrag == [](internal_frag = PaddingTotal) /\ [][C10_FreeStep]_vars

\* a padded allocation was freed while another padded allocation stays live
C10_Witness ==
    /\ call.op = "free" /\ ret = Ok
    /\ internal_frag > 0

\* C11: in every reachable state of either engine largest_alloc() <=
\* free_space(), so whenever free_space() > 0 the value
\* 1 - largest_alloc/free_space of external_frag lies in [0, 1].
C11_LargestWithinFree ==
    LET l == largest_alloc
        f == free_space
        x == external_frag
    IN /\ 0 <= l /\ l <= f
       /\ f > 0 => (x.kind = "ratio" /\ 0 <= x.num /\ x.num <= x.den)

\* a free left the space fragmented: something can be allocated, but less
\* than what is free
C11_Witness ==
    /\ call.op = "free" /\ ret = Ok
    /\ 0 < largest_alloc
    /\ largest_alloc < free_space

\* C12: in any reachable state with free_space() = 0, external_frag() returns
\* a defined value instead of the 0/0 of largest_alloc/free_space.
C12_ExhaustedDefined ==
    free_space = 0 => external_frag.kind = "ratio"

\* a malloc step of a FreeList under the given policy that returned an address
MallocGranted(policy) ==
    /\ engine = "freelist" /\ list.policy = policy
    /\ call'.op = "malloc" /\ ret'.tag = "Some"

\* indices of the free intervals that can hold a request of size
Candidates(size) ==
    {i \in 1..Len(list.freelist) : list.freelist[i].size >= RoundedUp(size)}

\* C13 as claimed: under Policy::Best malloc selects a fitting interval of
\* minimum size and, among several of that size, the first in list order (the
\* one with the lowest address).
C13_Claimed_Step ==
    MallocGranted("Best") =>
        \E i \in Candidates(call'.arg) :
            /\ list.freelist[i].addr = ret'.val
            /\ \A k \in Candidates(call'.arg) :
                  /\ list.freelist[i].size <= list.freelist[k].size
                  /\ list.freelist[k].size = list.freelist[i].size =>
                        (i <= k /\ list.freelist[i].addr <= list.freelist[k].addr)

C13_BestTieFirst == [][C13_Claimed_Step]_vars

\* C13 amended: under Policy::Best malloc selects a fitting interval of minimum
\* size and, among several of that size, the last in list order (the one with
\* the highest address).
C13_Amended_Step ==
    MallocGranted("Best") =>
        \E i \in Candidates(call'.arg) :
            /\ list.freelist[i].addr = ret'.val
            /\ \A k \in Candidates(call'.arg) :
                  /\ list.freelist[i].size <= list.freelist[k].size
                  /\ list.freelist[k].size = list.freelist[i].size =>
                        (k <= i /\ list.freelist[k].addr <= list.freelist[i].addr)

C13_BestTieLast == [][C13_Amended_Step]_vars

\* best-fit took an exact fit although an interval of the same size is free at
\* a lower address
C13_Witness ==
    /\ engine = "freelist" /\ list.policy = "Best"
    /\ call.op = "malloc" /\ ret.tag = "Some"
    /\ \E n \in 1..Len(list.freelist) :
          /\ list.freelist[n].addr < ret.val
          /\ list.freelist[n].size = Granted(call.arg)

\* C14: under Policy::First malloc returns the address of the lowest-addressed
\* free interval whose size is >= the rounded request: it takes the first
\* adequate interval in list order, and list order is address order.
C14_Step ==
    MallocGranted("First") =>
        \E i \in Candidates(call'.arg) :
            /\ list.freelist[i].addr = ret'.val
            /\ \A k \in Candidates(call'.arg) :
                  i <= k /\ list.freelist[i].addr <= list.freelist[k].addr

C14_FirstFitLowestAddress == [][C14_Step]_vars

\* first-fit returned an interval while another adequate interval is free
\* further up
C14_Witness ==
    /\ engine = "freelist" /\ list.policy = "First"
    /\ call.op = "malloc" /\ ret.tag = "Some"
    /\ \E n \in 1..Len(list.freelist) :
          /\ list.freelist[n].addr > ret.val + Granted(call.arg)
          /\ list.freelist[n].size >= Granted(call.arg)

\* a free step of a BuddyAllocator that returned Ok
BuddyFreed == engine = "buddy" /\ call'.op = "free" /\ ret' = Ok

\* addresses of the blocks of the level of size class k
LevelAddrs(self, k) ==
    LET blocks == self.levels[k - self.min_size + 1].blocks
    IN {blocks[n].addr : n \in 1..Len(blocks)}

\* address of the block of class k that merging upward from (ptr, c) makes,
\* taking the lower address of the pair at every merge
RECURSIVE MergedAddr(_, _, _)
MergedAddr(ptr, c, k) ==
    IF c >= k THEN ptr
    ELSE LET b == XorBit(ptr, c)
         IN MergedAddr(IF b < ptr THEN b ELSE ptr, c + 1, k)

\* C15: when free finds the buddy (addr XOR 2^c) free at the block's class c, it
\* removes that buddy and goes on at class c+1 with the lower of the two
\* addresses; the block finally inserted at a higher level carries the lower
\* address of the merged pair.
C15_Step ==
    BuddyFreed =>
        LET ptr == call'.arg
            c == buddy.sizemap[ptr][1]
        IN XorBit(ptr, c) \in LevelAddrs(buddy, c) =>
              /\ XorBit(ptr, c) \notin LevelAddrs(buddy', c)
              /\ \E k \in (c + 1)..buddy.max_size :
                    buddy'.levels[k - buddy.min_size + 1].blocks =
                        Append(buddy.levels[k - buddy.min_size + 1].blocks,
                               Block_new(MergedAddr(ptr, c, k), k))

C15_MergeKeepsLowerAddress == [][C15_Step]_vars

\* C16: a successful FreeList::malloc(size), with g the rounded size and (a, s)
\* the selected interval, returns a, records a -> (g, g - size) in sizemap,
\* removes the interval if s = g and otherwise replaces it in place by
\* (a + g, s - g), and leaves every other free interval and sizemap entry as it
\* was; on a fresh heap (base, max) the one interval left is (base + g, max - g).
C16_Step ==
    (engine = "freelist" /\ call'.op = "malloc" /\ ret'.tag = "Some") =>
        LET size == call'.arg
            g == RoundedUp(size)
            a == ret'.val
            old == list.freelist
        IN \E i \in 1..Len(old) :
              /\ old[i].addr = a
              /\ old[i].size >= g
              /\ DOMAIN list'.sizemap = DOMAIN list.sizemap \cup {a}
              /\ list'.sizemap[a] = <<g, g - size>>
              /\ \A k \in DOMAIN list.sizemap \ {a} :
                    list'.sizemap[k] = list.sizemap[k]
              /\ old[i].size = g =>
                    list'.freelist =
                        SubSeq(old, 1, i - 1) \o SubSeq(old, i + 1, Len(old))
              /\ old[i].size > g =>
                    list'.freelist =
                        [old EXCEPT ![i] = [addr |-> a + g, size |-> old[i].size - g]]
              /\ (old = <<[addr |-> base_addr, size |-> list.max_size]>>
                     /\ g < list.max_size) =>
                    list'.freelist =
                        <<[addr |-> base_addr + g, size |-> list.max_size - g]>>
              /\ list' = [list EXCEPT !.freelist = list'.freelist,
                                      !.sizemap = list'.sizemap]

C16_MallocEffect == [][C16_Step]_vars

\* a malloc was granted with a free interval right behind the granted block,
\* while another free interval and another allocation were there
C16_Witness ==
    /\ engine = "freelist"
    /\ call.op = "malloc" /\ ret.tag = "Some"
    /\ Len(list.freelist) >= 2
    /\ Cardinality(DOMAIN list.sizemap) >= 2
    /\ \E n \in 1..Len(list.freelist) :
          list.freelist[n].addr = ret.val + Granted(call.arg)

\* blocks of the level of size class k
LevelBlocks(self, k) == self.levels[k - self.min_size + 1].blocks

\* C17: when malloc needs class j and level j is empty, it takes the front
\* block of the lowest non-empty level c > j, removes it from level c, adds
\* exactly one block to each level j..c-1 (the buddy at addr XOR 2^k for level
\* k), changes no other level and returns the address of the block it took.
C17_Step ==
    (engine = "buddy" /\ call'.op = "malloc" /\ ret'.tag = "Some") =>
        LET j == GrantedClass(call'.arg) IN
        LevelBlocks(buddy, j) = <<>> =>
            \E c \in (j + 1)..buddy.max_size :
                /\ \A k \in j..(c - 1) : LevelBlocks(buddy, k) = <<>>
                /\ LevelBlocks(buddy, c) # <<>>
                /\ ret'.val = Head(LevelBlocks(buddy, c)).addr
                /\ LevelBlocks(buddy', c) = Tail(LevelBlocks(buddy, c))
                /\ \A k \in j..(c - 1) :
                      LevelBlocks(buddy', k) =
                          <<Block_new(XorBit(ret'.val, k), k)>>
                /\ \A k \in buddy.min_size..buddy.max_size :
                      (k < j \/ k > c) =>
                          LevelBlocks(buddy', k) = LevelBlocks(buddy, k)

C17_SplitEffect == [][C17_Step]_vars

\* a malloc split a block across two levels: the buddies of the returned
\* address sit at the granted class and at the class above it
C17_Witness ==
    /\ engine = "buddy"
    /\ call.op = "malloc" /\ ret.tag = "Some"
    /\ GrantedClass(call.arg) + 2 <= buddy.max_size
    /\ LevelBlocks(buddy, GrantedClass(call.arg)) =
          <<Block_new(XorBit(ret.val, GrantedClass(call.arg)),
                      GrantedClass(call.arg))>>
    /\ LevelBlocks(buddy, GrantedClass(call.arg) + 1) =
          <<Block_new(XorBit(ret.val, GrantedClass(call.arg) + 1),
                      GrantedClass(call.arg) + 1)>>

\* ------------------------------------------------------------------------
\* The external-fragmentation extreme case, run on both engines
\* ------------------------------------------------------------------------
\* eight malloc(1), then free of the addresses 0, 2, 4, 6
ExtremeCalls ==
    [n \in 1..12 |-> IF n <= 8 THEN [op |-> "malloc", arg |-> 1]
                     ELSE [op |-> "free", arg |-> 2 * (n - 9)]]

\* the BuddyAllocator after the calls, made in order from self
RECURSIVE BuddyAfter(_, _)
BuddyAfter(self, calls) ==
    IF calls = <<>> THEN self
    ELSE BuddyAfter(IF Head(calls).op = "malloc"
                    THEN Buddy_malloc(self, Head(calls).arg).self
                    ELSE Buddy_free(self, Head(calls).arg).self,
                    Tail(calls))

\* the FreeList after the calls, made in order from self
RECURSIVE FreeListAfter(_, _)
FreeListAfter(self, calls) ==
    IF calls = <<>> THEN self
    ELSE FreeListAfter(IF Head(calls).op = "malloc"
                       THEN FreeList_malloc(self, Head(calls).arg).self
                       ELSE (CHOOSE out \in FreeList_free(self, Head(calls).arg) :
                                TRUE).self,
                       Tail(calls))

ExtremeBuddy == BuddyAfter(BuddyAllocator_new(0, 3), ExtremeCalls)

ExtremeFreeList == FreeListAfter(FreeList_new(0, 8, FALSE), ExtremeCalls)

ExtremeCase ==
    /\ Buddy_largest_alloc(ExtremeBuddy) = 1
    /\ Buddy_free_space(ExtremeBuddy) = 4
    /\ FreeList_largest_alloc(ExtremeFreeList) = 1
    /\ FreeList_free_space(ExtremeFreeList) = 4

\* C18: no merge without a free partner.  BuddyAllocator::free of a block whose
\* buddy at its class is not free inserts that block at its own level and
\* changes no other level; FreeList::free with coalesce disabled inserts
\* exactly the interval (addr, granted size) and leaves every existing interval
\* as it was, adjacent or not.  So after eight malloc(1) fill a capacity-8
\* allocator and 0, 2, 4, 6 are freed, largest_alloc() = 1 and free_space() = 4.
C18_Step ==
    /\ BuddyFreed =>
          LET ptr == call'.arg
              c == buddy.sizemap[ptr][1]
          IN XorBit(ptr, c) \notin LevelAddrs(buddy, c) =>
                /\ LevelBlocks(buddy', c) =
                      Append(LevelBlocks(buddy, c), Block_new(ptr, c))
                /\ \A k \in buddy.min_size..buddy.max_size :
                      k # c => LevelBlocks(buddy', k) = LevelBlocks(buddy, k)
    /\ (engine = "freelist" /\ ~list.coalesce
            /\ call'.op = "free" /\ ret' = Ok) =>
          LET ptr == call'.arg
              node == [addr |-> ptr, size |-> list.sizemap[ptr][1]]
              old == list.freelist
          IN \E n \in 0..Len(old) :
                list'.freelist =
                    SubSeq(old, 1, n) \o <<node>> \o SubSeq(old, n + 1, Len(old))

C18_NoMergeWithoutPartner == [](ExtremeCase) /\ [][C18_Step]_vars

\* with coalesce disabled a free put an interval right in front of another
\* free interval and both are still there
C18_Witness ==
    /\ engine = "freelist" /\ ~list.coalesce
    /\ call.op = "free" /\ ret = Ok
    /\ \E i, k \in 1..Len(list.freelist) :
          /\ list.freelist[i].addr = call.arg
          /\ list.freelist[i].addr + list.freelist[i].size = list.freelist[k].addr

\* C19: buddy full-free restoration.  Once every live allocation of a
\* BuddyAllocator has been freed, in whatever order, the allocator is back in
\* the state BuddyAllocator::new(min_size, max_size) built: level max_size
\* holds exactly one block at address 0, every other level is empty, sizemap
\* is empty and largest_alloc() = 2^max_size.
C19_BuddyFullFreeRestores ==
    (engine = "buddy" /\ call.op = "free" /\ DOMAIN buddy.sizemap = {}) =>
        /\ LevelBlocks(buddy, buddy.max_size) = <<Block_new(0, buddy.max_size)>>
        /\ \A k \in buddy.min_size..(buddy.max_size - 1) :
              LevelBlocks(buddy, k) = <<>>
        /\ buddy = BuddyAllocator_new(buddy.min_size, buddy.max_size)
        /\ Buddy_largest_alloc(buddy) = Pow2(buddy.max_size)

\* C20: FreeList full-free restoration with coalescing.  For a FreeList built
\* with coalesce = true, whatever its align and policy, once a free has left no
\* live allocation the free list is exactly the single interval
\* (base_addr, max_size) and sizemap is empty.
C20_FreeListFullFreeRestores ==
    (engine = "freelist" /\ list.coalesce
        /\ call.op = "free" /\ ret = Ok /\ live = EmptyBag) =>
        /\ list.freelist = <<FreeNode_new(base_addr, list.max_size)>>
        /\ DOMAIN list.sizemap = {}

\* the free that emptied a coalescing FreeList with an alignment gave back a
\* block that did not start the heap
C20_Witness ==
    /\ engine = "freelist" /\ list.coalesce
    /\ call.op = "free" /\ ret = Ok /\ live = EmptyBag
    /\ call.arg > base_addr
    /\ list.align > 1

\* C21: live addresses are unique.  On both engines a malloc that succeeds
\* never returns an address that is a key of sizemap when it is called, so no
\* sizemap entry is overwritten, and the number of live allocations (keys of
\* sizemap) is the number of successful mallocs minus the number of
\* successful frees.
C21_Step ==
    (call'.op = "malloc" /\ ret'.tag = "Some") =>
        ret'.val \notin DOMAIN sizemap

C21_LiveAddressesUnique ==
    [](Cardinality(DOMAIN sizemap) = BagCardinality(live)) /\ [][C21_Step]_vars

\* a malloc was granted an address below that of another live allocation,
\* with a third allocation live as well
C21_Witness ==
    /\ call.op = "malloc" /\ ret.tag = "Some"
    /\ Cardinality(DOMAIN sizemap) >= 3
    /\ \E a \in DOMAIN sizemap : ret.val < a

\* C22: in every reachable FreeList state, after malloc as after free and
\* with or without coalescing, the freelist sequence is sorted by strictly
\* increasing address.
C22_FreeListSorted ==
    engine = "freelist" =>
        \A i \in 1..(Len(list.freelist) - 1) :
            list.freelist[i].addr < list.freelist[i + 1].addr

\* a free gave back the interval of lowest address while other intervals
\* were free, and the list holds it first
C22_Witness ==
    /\ engine = "freelist"
    /\ call.op = "free" /\ ret = Ok
    /\ Len(list.freelist) >= 2
    /\ list.freelist[1].addr = call.arg

\* largest request that can be granted, computed from the free structure
\* in one pass
MaxOf(S) == IF S = {} THEN 0 ELSE CHOOSE x \in S : \A y \in S : y <= x

DirectLargest ==
    IF engine = "buddy"
    THEN MaxOf({Pow2(buddy.levels[i].size_class) :
                   i \in {k \in 1..Len(buddy.levels) :
                             buddy.levels[k].blocks # <<>>}})
    ELSE LET M == MaxOf({list.freelist[n].size : n \in 1..Len(list.freelist)})
         IN IF list.align > 1 THEN (M \div list.align) * list.align ELSE M

\* C23: the upward-probing largest_alloc equals the direct computation in
\* every reachable state: for BuddyAllocator 2^h with h the highest non-empty
\* level, 0 when all levels are empty; for FreeList the largest free interval
\* size M when align <= 1 and floor(M / align) * align when align > 1, 0 when
\* the list is empty.  The probe always finds a failing size in its range, so
\* it never panics.
C23_LargestAllocDirect ==
    LET l == largest_alloc IN
    /\ l # Panic
    /\ l = DirectLargest

\* after a free on a FreeList with an alignment, the largest free interval is
\* not a multiple of the alignment and largest_alloc is below its size
C23_Witness ==
    /\ engine = "freelist" /\ list.align > 1
    /\ call.op = "free" /\ ret = Ok
    /\ largest_alloc > 0
    /\ \E n \in 1..Len(list.freelist) : list.freelist[n].size > largest_alloc

\* C24: BuddyAllocator::free ends after a bounded number of merges.  A free
\* of a block of class c merges at the levels c..e-1 for some e in
\* c..max_size, so at most max_size - c times, taking one buddy from each of
\* them; it finds no buddy at level max_size, so no level above max_size is
\* indexed; and it ends by inserting exactly one block, at level e.
C24_Step ==
    BuddyFreed =>
        LET ptr == call'.arg
            c == buddy.sizemap[ptr][1]
        IN \E e \in c..buddy.max_size :
              /\ e - c <= buddy.max_size - c
              /\ XorBit(ptr, buddy.max_size)
                    \notin LevelAddrs(buddy, buddy.max_size)
              /\ \A k \in buddy.min_size..buddy.max_size :
                    LET old == LevelBlocks(buddy, k)
                        new == LevelBlocks(buddy', k)
                    IN IF k < c \/ k > e THEN new = old
                       ELSE IF k = e THEN new = Append(old, Block_new(ptr, e))
                       ELSE \E n \in 1..Len(old) :
                               /\ old[n].addr = XorBit(ptr, k)
                               /\ new = VecRemove(old, n - 1)

C24_FreeBoundedMerging == [][C24_Step]_vars

\* the last live block of a three-level allocator was freed and the block
\* the free inserted, at an odd address, is the only one at the top level
C24_Witness ==
    /\ engine = "buddy"
    /\ buddy.max_size - buddy.min_size = 2
    /\ call.op = "free" /\ ret = Ok /\ live = EmptyBag
    /\ call.arg % 2 = 1
    /\ LevelBlocks(buddy, buddy.max_size) =
          <<Block_new(call.arg, buddy.max_size)>>

\* C25: in every reachable BuddyAllocator state, after frees that merge
\* blocks upward as after any other call, every block stored in levels[i]
\* carries size_class = i + min_size, the size class of the level itself.
C25_SizeClassMatch ==
    engine = "buddy" =>
        \A i \in 0..(Len(buddy.levels) - 1) :
            /\ buddy.levels[i + 1].size_class = i + buddy.min_size
            /\ \A n \in 1..Len(buddy.levels[i + 1].blocks) :
                  buddy.levels[i + 1].blocks[n].size_class = i + buddy.min_size

\* a free left its block above the lowest level, at an address that is not a
\* multiple of the size of that level, while another allocation is live and
\* another level holds a block
C25_Witness ==
    /\ engine = "buddy"
    /\ call.op = "free" /\ ret = Ok /\ live # EmptyBag
    /\ \E i \in 1..(Len(buddy.levels) - 1) :
          /\ \E n \in 1..Len(buddy.levels[i + 1].blocks) :
                /\ buddy.levels[i + 1].blocks[n].addr = call.arg
                /\ call.arg % Pow2(i + buddy.min_size) # 0
          /\ \E k \in 1..Len(buddy.levels) :
                k # i + 1 /\ buddy.levels[k].blocks # <<>>

====
